---- MODULE Spec2Model ----
(***************************************************************************)
(* Model of backend/src/server.ts: an MCP server with three tools (add,    *)
(* weather, search) fronted by an express router with the routes GET /,    *)
(* GET /sse and POST /messages.                                            *)
(*                                                                         *)
(* Two specifications share the variables:                                 *)
(*   SpecHttp  - the router and the module-level `transport` reference;    *)
(*   SpecTools - one tool invocation, split at every `await`.              *)
(***************************************************************************)
EXTENDS Integers, Sequences, FiniteSets, TLC

VARIABLES
    transport,    \* `let transport` (server.ts:163): 0 is undefined, else a transport id
    nTransports,  \* number of SSEServerTransport objects constructed so far
    conn,         \* per transport: state of the response stream it was built on
    started,      \* history: transport ids in the order the GET /sse handlers started
    posts,        \* history: one record per handled POST /messages
    rootResp,     \* the last response of GET /
    apiKey,       \* process.env.BRAVE_API_KEY
    pc,           \* position of the tool invocation in flight
    tool,         \* name of the invoked tool
    args,         \* arguments of the invocation, as received
    handlerRan,   \* TRUE once the tool's handler body has started
    requests,     \* outbound requests issued by this invocation, in order
    geo,          \* geoData.results[0], kept across the second await
    responses,    \* history: what each outbound request of this invocation got
    result        \* how the invocation ended

httpVars == <<transport, nTransports, conn, started, posts, rootResp>>
toolVars == <<apiKey, pc, tool, args, handlerRan, requests, geo, responses, result>>
vars == <<transport, nTransports, conn, started, posts, rootResp,
          apiKey, pc, tool, args, handlerRan, requests, geo, responses, result>>

(***************************************************************************)
(* Bounds                                                                  *)
(***************************************************************************)
MaxConn == 2      \* GET /sse requests per behaviour
MaxPosts == 2     \* POST /messages requests per behaviour
MaxNum == 12      \* add's arguments range over -MaxNum..MaxNum
MaxResults == 2   \* length of an upstream result list

Last(s) == s[Len(s)]

(***************************************************************************)
(* HTTP front door                                                         *)
(***************************************************************************)
Undefined == 0

\* The tools registered with server.tool(...).
RegisteredTools == {"add", "weather", "search"}

\* The `tools` array of the GET / body.
RootTools == <<"add", "search">>

NoResponse == [status |-> 0, tools |-> <<>>]

\* app.get("/"): res.json(...) answers 200 with the static document.
GetRoot ==
    /\ rootResp' = [status |-> 200, tools |-> RootTools]
    /\ UNCHANGED <<transport, nTransports, conn, started, posts>>
    /\ UNCHANGED toolVars

\* app.get("/sse"), up to its await: a new transport is constructed and
\* assigned to the module-level reference, then server.connect is called.
GetSse_keepFirst ==
    /\ nTransports < MaxConn
    /\ nTransports' = nTransports + 1
    /\ transport' = IF transport = Undefined THEN nTransports + 1 ELSE transport
    /\ conn' = [conn EXCEPT ![nTransports + 1] = "connecting"]
    /\ started' = Append(started, nTransports + 1)
    /\ UNCHANGED <<posts, rootResp>>
    /\ UNCHANGED toolVars

GetSse ==
    /\ nTransports < MaxConn
    /\ nTransports' = nTransports + 1
    /\ transport' = nTransports + 1
    /\ conn' = [conn EXCEPT ![nTransports + 1] = "connecting"]
    /\ started' = Append(started, nTransports + 1)
    /\ UNCHANGED <<posts, rootResp>>
    /\ UNCHANGED toolVars

\* app.get("/sse"), after its await: server.connect(transport) resolved; the
\* handler ends and the stream stays open.
SseConnected(t) ==
    /\ conn[t] = "connecting"
    /\ conn' = [conn EXCEPT ![t] = "streaming"]
    /\ UNCHANGED <<transport, nTransports, started, posts, rootResp>>
    /\ UNCHANGED toolVars

\* The client of transport t disconnects.  server.ts registers no close
\* handler: nothing of the module's own state changes.
CloseConnection_clears(t) ==
    /\ conn[t] \in {"connecting", "streaming"}
    /\ conn' = [conn EXCEPT ![t] = "closed"]
    /\ transport' = IF transport = t THEN Undefined ELSE transport
    /\ UNCHANGED <<nTransports, started, posts, rootResp>>
    /\ UNCHANGED toolVars

CloseConnection(t) ==
    /\ conn[t] \in {"connecting", "streaming"}
    /\ conn' = [conn EXCEPT ![t] = "closed"]
    /\ UNCHANGED <<transport, nTransports, started, posts, rootResp>>
    /\ UNCHANGED toolVars

\* One handled POST /messages.  session is the session the sender means (the
\* sessionId it was given on its own stream, 0 when it has none).
PostRecord(session, to, outcome) ==
    [session |-> session, to |-> to, outcome |-> outcome,
     nStarted |-> Len(started), connAt |-> conn]

\* app.post("/messages"): transport.handlePostMessage(req, res).  Reading a
\* property of undefined throws a TypeError.
PostMessages_guarded(session) ==
    /\ Len(posts) < MaxPosts
    /\ posts' = Append(posts,
                   IF transport = Undefined
                   THEN PostRecord(session, Undefined, "completed")
                   ELSE PostRecord(session, transport, "forwarded"))
    /\ UNCHANGED <<transport, nTransports, conn, started, rootResp>>
    /\ UNCHANGED toolVars

PostMessages(session) ==
    /\ Len(posts) < MaxPosts
    /\ posts' = Append(posts,
                   IF transport = Undefined
                   THEN PostRecord(session, Undefined, "TypeError")
                   ELSE PostRecord(session, transport, "forwarded"))
    /\ UNCHANGED <<transport, nTransports, conn, started, rootResp>>
    /\ UNCHANGED toolVars

InitHttp ==
    /\ transport = Undefined
    /\ nTransports = 0
    /\ conn = [t \in 1..MaxConn |-> "unused"]
    /\ started = <<>>
    /\ posts = <<>>
    /\ rootResp = NoResponse

NextHttp ==
    \/ GetRoot
    \/ GetSse
    \/ \E t \in 1..MaxConn : SseConnected(t)
    \/ \E t \in 1..MaxConn : CloseConnection(t)
    \/ \E session \in 0..nTransports : PostMessages(session)

(***************************************************************************)
(* Values, as they arrive in a tools/call request                          *)
(***************************************************************************)
Num(n) == [t |-> "number", n |-> n, s |-> ""]
Str(s) == [t |-> "string", n |-> 0, s |-> s]
Missing == [t |-> "undefined", n |-> 0, s |-> ""]

SeqsUpTo(S, n) == UNION {[1..k -> S] : k \in 0..n}

(***************************************************************************)
(* Tool registry                                                           *)
(***************************************************************************)
\* { a: z.number(), b: z.number() }
AddSchema ==
    [a |-> [type |-> "number", optional |-> FALSE],
     b |-> [type |-> "number", optional |-> FALSE]]

\* { city: z.string() }
WeatherSchema_optional ==
    [city |-> [type |-> "string", optional |-> TRUE]]

WeatherSchema ==
    [city |-> [type |-> "string", optional |-> FALSE]]

\* { query: z.string(), count: z.number().optional() }
SearchSchema ==
    [query |-> [type |-> "string", optional |-> FALSE],
     count |-> [type |-> "number", optional |-> TRUE]]

\* The registry validates the arguments against the registered schema before
\* it calls the handler.
Accepts(rule, v) == v.t = rule.type \/ (rule.optional /\ v.t = "undefined")

ValidateArgs(schema, a) == \A p \in DOMAIN schema : Accepts(schema[p], a[p])

TextBlock(text) == [type |-> "text", text |-> text]

NoResult == [kind |-> "none", content |-> <<>>, error |-> <<>>]
Content(text) == [kind |-> "content", content |-> <<TextBlock(text)>>, error |-> <<>>]
Throw(message) == [kind |-> "throw", content |-> <<>>, error |-> message]
Rejected(t) == [kind |-> "rejected", content |-> <<>>,
                error |-> <<"Invalid arguments for tool ", t>>]

\* A call whose arguments fail the schema: rejected, the handler is not called.
Reject(t, a) ==
    /\ pc = "idle"
    /\ tool' = t
    /\ args' = a
    /\ pc' = "done"
    /\ result' = Rejected(t)
    /\ UNCHANGED <<apiKey, handlerRan, requests, geo, responses>>

(***************************************************************************)
(* Conversions.  A text is a sequence of tokens; a decimal digit, a sign,  *)
(* a JSON punctuation mark, a line feed and a space are tokens of their    *)
(* own.                                                                    *)
(***************************************************************************)
DigitChar == <<"0", "1", "2", "3", "4", "5", "6", "7", "8", "9">>

RECURSIVE Digits(_)
Digits(n) ==
    IF n < 10 THEN <<DigitChar[n + 1]>>
    ELSE Digits(n \div 10) \o <<DigitChar[(n % 10) + 1]>>

\* String(n) and `${n}` for an integer n.
JsString(n) == IF n < 0 THEN <<"-">> \o Digits(-n) ELSE Digits(n)

\* encodeURIComponent on the strings the model uses: a space becomes %20,
\* letters, digits and "-" are kept.
EncodeURIComponent(s) ==
    CASE s = "New York" -> "New%20York"
      [] s = "mcp sse" -> "mcp%20sse"
      [] OTHER -> s

RECURSIVE Spaces(_)
Spaces(n) == IF n = 0 THEN <<>> ELSE <<" ">> \o Spaces(n - 1)

\* JSON.stringify(item, null, indent) of a result object nested at depth 1.
JsonObject(item, indent) ==
    IF indent = 0
    THEN <<"{", "\"", "title", "\"", ":", "\"", item.title, "\"", "}">>
    ELSE <<"{", "\n">> \o Spaces(2 * indent)
         \o <<"\"", "title", "\"", ":", " ", "\"", item.title, "\"", "\n">>
         \o Spaces(indent) \o <<"}">>

RECURSIVE JsonItems(_, _)
JsonItems(list, indent) ==
    IF list = <<>> THEN <<>>
    ELSE (IF indent = 0 THEN <<>> ELSE <<"\n">> \o Spaces(indent))
         \o JsonObject(Head(list), indent)
         \o (IF Len(list) > 1 THEN <<",">> ELSE <<>>)
         \o JsonItems(Tail(list), indent)

\* JSON.stringify(list, null, indent) of an array of result objects.
JsonStringify(list, indent) ==
    IF list = <<>> THEN <<"[", "]">>
    ELSE <<"[">> \o JsonItems(list, indent)
         \o (IF indent = 0 THEN <<>> ELSE <<"\n">>) \o <<"]">>

(***************************************************************************)
(* Outbound requests and what the upstream services answer.  A response    *)
(* with a success status carries a JSON object body (the services are      *)
(* JSON APIs); fetch itself may reject (no network, DNS failure).          *)
(***************************************************************************)
GeoRequest(city) ==
    [api |-> "geocoding", q |-> EncodeURIComponent(city), count |-> 1,
     latitude |-> 0, longitude |-> 0, token |-> ""]

WeatherRequest(latitude, longitude) ==
    [api |-> "forecast", q |-> "", count |-> 0,
     latitude |-> latitude, longitude |-> longitude, token |-> ""]

SearchRequest(query, count, key) ==
    [api |-> "brave", q |-> EncodeURIComponent(query), count |-> count,
     latitude |-> 0, longitude |-> 0, token |-> key]

Places ==
    {[latitude |-> 49, longitude |-> 2, name |-> "Paris", country |-> "France"],
     [latitude |-> 34, longitude |-> -96, name |-> "Paris", country |-> "United States"]}

NoPlace == [latitude |-> 0, longitude |-> 0, name |-> "", country |-> ""]

GeoResponses ==
    {[kind |-> "reject", ok |-> FALSE, hasResults |-> FALSE, results |-> <<>>],
     [kind |-> "response", ok |-> FALSE, hasResults |-> FALSE, results |-> <<>>],
     [kind |-> "response", ok |-> TRUE, hasResults |-> FALSE, results |-> <<>>]}
    \cup {[kind |-> "response", ok |-> TRUE, hasResults |-> TRUE, results |-> r] :
              r \in SeqsUpTo(Places, MaxResults)}

Currents ==
    {[temperature |-> 21, windspeed |-> 7, weathercode |-> 3],
     [temperature |-> -4, windspeed |-> 30, weathercode |-> 71]}

NoCurrent == [temperature |-> 0, windspeed |-> 0, weathercode |-> 0]

WeatherResponses ==
    {[kind |-> "reject", ok |-> FALSE, hasCurrent |-> FALSE, current |-> NoCurrent],
     [kind |-> "response", ok |-> FALSE, hasCurrent |-> FALSE, current |-> NoCurrent],
     [kind |-> "response", ok |-> TRUE, hasCurrent |-> FALSE, current |-> NoCurrent]}
    \cup {[kind |-> "response", ok |-> TRUE, hasCurrent |-> TRUE, current |-> w] :
              w \in Currents}

Items == {[title |-> "MCP"], [title |-> "SSE server"]}

SearchResponses ==
    {[kind |-> "reject", ok |-> FALSE, statusText |-> "",
      hasWeb |-> FALSE, hasResults |-> FALSE, results |-> <<>>]}
    \cup {[kind |-> "response", ok |-> FALSE, statusText |-> st,
           hasWeb |-> FALSE, hasResults |-> FALSE, results |-> <<>>] :
              st \in {"Unauthorized", "Too Many Requests"}}
    \cup {[kind |-> "response", ok |-> TRUE, statusText |-> "OK",
           hasWeb |-> w, hasResults |-> FALSE, results |-> <<>>] : w \in BOOLEAN}
    \cup {[kind |-> "response", ok |-> TRUE, statusText |-> "OK",
           hasWeb |-> TRUE, hasResults |-> TRUE, results |-> r] :
              r \in SeqsUpTo(Items, MaxResults)}

FetchFailed == <<"request to upstream failed">>

(***************************************************************************)
(* add                                                                     *)
(***************************************************************************)
AddHandler_concat(a, b) == Content(JsString(a) \o JsString(b))

\* async ({ a, b }) => ({ content: [{ type: "text", text: String(a + b) }] })
AddHandler(a, b) == Content(JsString(a + b))

CallAdd(a) ==
    /\ pc = "idle"
    /\ IF ValidateArgs(AddSchema, a)
       THEN /\ tool' = "add"
            /\ args' = a
            /\ handlerRan' = TRUE
            /\ result' = AddHandler(a.a.n, a.b.n)
            /\ pc' = "done"
            /\ UNCHANGED <<apiKey, requests, geo, responses>>
       ELSE Reject("add", a)
    /\ UNCHANGED httpVars

(***************************************************************************)
(* weather                                                                 *)
(***************************************************************************)
\* The handler up to its first await: the geocode request is issued.
CallWeather(a) ==
    /\ pc = "idle"
    /\ IF ValidateArgs(WeatherSchema, a)
       THEN /\ tool' = "weather"
            /\ args' = a
            /\ handlerRan' = TRUE
            /\ requests' = Append(requests, GeoRequest(a.city.s))
            /\ pc' = "geo"
            /\ UNCHANGED <<apiKey, geo, responses, result>>
       ELSE Reject("weather", a)
    /\ UNCHANGED httpVars

WeatherSuccessText(place, w) ==
    <<"Weather for ", place.name, ", ", place.country, ":\nTemperature: ">>
    \o JsString(w.temperature) \o <<"°C\nWindspeed: ">>
    \o JsString(w.windspeed) \o <<" km/h\nWeather code: ">>
    \o JsString(w.weathercode)

\* From the first await to the second: the geocode fetch settles.
GeoResponse_skipOkCheck(r) ==
    /\ pc = "geo"
    /\ responses' = Append(responses, r)
    /\ IF r.kind = "reject"
       THEN /\ result' = Throw(FetchFailed)
            /\ pc' = "done"
            /\ UNCHANGED <<requests, geo>>
       ELSE IF ~r.hasResults \/ Len(r.results) = 0
       THEN /\ result' = Content(<<"City not found: ", args.city.s>>)
            /\ pc' = "done"
            /\ UNCHANGED <<requests, geo>>
       ELSE /\ geo' = r.results[1]
            /\ requests' = Append(requests,
                   WeatherRequest(r.results[1].latitude, r.results[1].longitude))
            /\ pc' = "forecast"
            /\ UNCHANGED result
    /\ UNCHANGED <<apiKey, tool, args, handlerRan>>
    /\ UNCHANGED httpVars

GeoResponse(r) ==
    /\ pc = "geo"
    /\ responses' = Append(responses, r)
    /\ IF r.kind = "reject"
       THEN /\ result' = Throw(FetchFailed)
            /\ pc' = "done"
            /\ UNCHANGED <<requests, geo>>
       ELSE IF ~r.ok
       THEN /\ result' = Content(<<"Failed to fetch location for city: ", args.city.s>>)
            /\ pc' = "done"
            /\ UNCHANGED <<requests, geo>>
       ELSE IF ~r.hasResults \/ Len(r.results) = 0
       THEN /\ result' = Content(<<"City not found: ", args.city.s>>)
            /\ pc' = "done"
            /\ UNCHANGED <<requests, geo>>
       ELSE /\ geo' = r.results[1]
            /\ requests' = Append(requests,
                   WeatherRequest(r.results[1].latitude, r.results[1].longitude))
            /\ pc' = "forecast"
            /\ UNCHANGED result
    /\ UNCHANGED <<apiKey, tool, args, handlerRan>>
    /\ UNCHANGED httpVars

\* From the second await to the end: the forecast fetch settles.
WeatherResponse(r) ==
    /\ pc = "forecast"
    /\ responses' = Append(responses, r)
    /\ result' =
         IF r.kind = "reject" THEN Throw(FetchFailed)
         ELSE IF ~r.ok
         THEN Content(<<"Failed to fetch weather for city: ", args.city.s>>)
         ELSE IF ~r.hasCurrent
         THEN Content(<<"Weather data not available for: ", args.city.s>>)
         ELSE Content(WeatherSuccessText(geo, r.current))
    /\ pc' = "done"
    /\ UNCHANGED <<apiKey, tool, args, handlerRan, requests, geo>>
    /\ UNCHANGED httpVars

(***************************************************************************)
(* search                                                                  *)
(***************************************************************************)
DefaultCount == 5

Unset == "<undefined>"

\* !process.env.BRAVE_API_KEY
KeyMissing(k) == k = Unset \/ k = ""

\* ({ query, count = 5 }): the default applies to an omitted count.
CountOrDefault(c) == IF c.t = "undefined" THEN DefaultCount ELSE c.n

\* The handler up to its await: the credential check, then the request.
SearchHandler_noKeyCheck(a) ==
    /\ requests' = Append(requests,
           SearchRequest(a.query.s, CountOrDefault(a.count), apiKey))
    /\ pc' = "search"
    /\ UNCHANGED result

SearchHandler(a) ==
    IF KeyMissing(apiKey)
    THEN /\ result' = Throw(<<"BRAVE_API_KEY environment variable is not set">>)
         /\ pc' = "done"
         /\ UNCHANGED requests
    ELSE /\ requests' = Append(requests,
                SearchRequest(a.query.s, CountOrDefault(a.count), apiKey))
         /\ pc' = "search"
         /\ UNCHANGED result

CallSearch(a) ==
    /\ pc = "idle"
    /\ IF ValidateArgs(SearchSchema, a)
       THEN /\ tool' = "search"
            /\ args' = a
            /\ handlerRan' = TRUE
            /\ SearchHandler(a)
            /\ UNCHANGED <<apiKey, geo, responses>>
       ELSE Reject("search", a)
    /\ UNCHANGED httpVars

\* data.web?.results || []
WebResults(r) == IF r.hasWeb /\ r.hasResults THEN r.results ELSE <<>>

\* What the handler does with a response that arrived.
SearchOutcome_soft(r) ==
    IF ~r.ok THEN Content(<<"Brave search failed: ", r.statusText>>)
    ELSE Content(JsonStringify(WebResults(r), 2))

SearchOutcome(r) ==
    IF ~r.ok THEN Throw(<<"Brave search failed: ", r.statusText>>)
    ELSE Content(JsonStringify(WebResults(r), 2))

\* From the await to the end: the search fetch settles.
SearchResponse(r) ==
    /\ pc = "search"
    /\ responses' = Append(responses, r)
    /\ result' = IF r.kind = "reject" THEN Throw(FetchFailed) ELSE SearchOutcome(r)
    /\ pc' = "done"
    /\ UNCHANGED <<apiKey, tool, args, handlerRan, requests, geo>>
    /\ UNCHANGED httpVars

(***************************************************************************)
(* Invocations the model tries                                             *)
(***************************************************************************)
Numbers == {Num(n) : n \in -MaxNum..MaxNum}

AddArgs == [a : Numbers \cup {Str("1"), Missing}, b : Numbers \cup {Str("2"), Missing}]

WeatherArgs == [city : {Str("Paris"), Str("New York"), Str("nonexistent-city-xyz"),
                        Num(75), Missing}]

SearchArgs == [query : {Str("test"), Str("mcp sse"), Num(1), Missing},
               count : {Missing, Num(1), Num(10), Str("3")}]

InitTools ==
    /\ apiKey \in {Unset, "", "BSA-secret"}
    /\ pc = "idle"
    /\ tool = "none"
    /\ args = <<>>
    /\ handlerRan = FALSE
    /\ requests = <<>>
    /\ geo = NoPlace
    /\ responses = <<>>
    /\ result = NoResult

NextTools ==
    \/ \E a \in AddArgs : CallAdd(a)
    \/ \E a \in WeatherArgs : CallWeather(a)
    \/ \E a \in SearchArgs : CallSearch(a)
    \/ \E r \in GeoResponses : GeoResponse(r)
    \/ \E r \in WeatherResponses : WeatherResponse(r)
    \/ \E r \in SearchResponses : SearchResponse(r)

Init == InitHttp /\ InitTools

\* The router does not read the credential: one value is enough there.
InitRouter == Init /\ apiKey = Unset

SpecHttp == InitRouter /\ [][NextHttp]_vars

SpecTools == Init /\ [][NextTools]_vars

(***************************************************************************)
(* Properties                                                              *)
(***************************************************************************)
Open == {"connecting", "streaming"}

\* C1: every POST /messages handled once a GET /sse handler has started is
\* handed to the transport created by the most recently started GET /sse
\* handler, whatever session its sender belongs to; with two connections A
\* then B open, that is B's transport and never A's.
C1_RoutedToLatest ==
    \A i \in 1..Len(posts) :
        posts[i].nStarted > 0 =>
            /\ posts[i].outcome = "forwarded"
            /\ posts[i].to = started[posts[i].nStarted]

\* A and B both open, A's client posts, B's transport gets the message.
C1_Witness ==
    \E i \in 1..Len(posts) :
        /\ posts[i].nStarted = 2
        /\ posts[i].connAt[started[1]] \in Open
        /\ posts[i].connAt[started[2]] \in Open
        /\ posts[i].session = started[1]
        /\ posts[i].to = started[2]

\* C4: GET / answers 200 with a tools list naming exactly the registered
\* tools add, weather and search.
C4_RootListsRegisteredTools ==
    rootResp # NoResponse =>
        /\ rootResp.status = 200
        /\ {rootResp.tools[i] : i \in 1..Len(rootResp.tools)} = RegisteredTools
        /\ Len(rootResp.tools) = Cardinality(RegisteredTools)

\* C9: a POST /messages handled before any GET /sse was received reaches no
\* transport and its handler fails with an error; a POST is forwarded only
\* when a GET /sse has assigned the reference before.
C9_NoSessionNoDelivery ==
    \A i \in 1..Len(posts) :
        /\ posts[i].nStarted = 0 =>
              posts[i].outcome = "TypeError" /\ posts[i].to = Undefined
        /\ posts[i].outcome = "forwarded" =>
              posts[i].nStarted > 0 /\ posts[i].to \in 1..nTransports

C9_Witness ==
    \E i \in 1..Len(posts) :
        posts[i].nStarted = 0 /\ posts[i].outcome = "TypeError"

\* A POST handled after the latest connection closed still goes to that
\* closed connection's transport.
C10_StaleAfterClose ==
    \A i \in 1..Len(posts) :
        (/\ posts[i].nStarted > 0
         /\ posts[i].connAt[started[posts[i].nStarted]] = "closed") =>
            /\ posts[i].outcome = "forwarded"
            /\ posts[i].to = started[posts[i].nStarted]

\* A step changes the reference only by binding it to the transport of a GET
\* /sse handler that starts in that step; it never unbinds it.
C10_WrittenBySseOnly ==
    /\ transport # Undefined => transport' # Undefined
    /\ transport' # transport => started' # started /\ transport' = Last(started')
    /\ (posts' # posts \/ rootResp' # rootResp) => transport' = transport

\* C10: the reference is written by GET /sse alone and never cleared: once
\* bound it stays bound, GET / and POST /messages leave it as it is, and a
\* POST handled after the latest connection closed still goes to that closed
\* connection's transport, not to an earlier connection that is still open.
C10_NeverCleared == [](C10_StaleAfterClose) /\ [][C10_WrittenBySseOnly]_vars

\* The latest connection is closed, an earlier one is still open, and the
\* POST went to the closed one.
C10_Witness ==
    \E i \in 1..Len(posts) :
        /\ posts[i].nStarted = 2
        /\ posts[i].connAt[started[2]] = "closed"
        /\ posts[i].connAt[started[1]] \in Open
        /\ posts[i].to = started[2]

ResultText == result.content[1].text

OneTextBlock ==
    /\ result.kind = "content"
    /\ Len(result.content) = 1
    /\ result.content[1].type = "text"

\* The documented signatures: add(a: number, b: number), weather(city:
\* string), search(query: string, count?: number).
WellFormed(t, a) ==
    CASE t = "add" -> a.a.t = "number" /\ a.b.t = "number"
      [] t = "weather" -> a.city.t = "string"
      [] t = "search" -> a.query.t = "string" /\ a.count.t \in {"number", "undefined"}
      [] OTHER -> FALSE

\* C2: every failure of either outbound step of the weather tool, the fetch
\* rejecting included, ends the invocation by returning text content; the
\* handler never throws.
C2_WeatherNeverThrows ==
    (tool = "weather" /\ handlerRan /\ pc = "done") => OneTextBlock

\* C3: search invoked with BRAVE_API_KEY unset or empty throws and issues no
\* outbound request; a search request is issued only when the credential
\* was present.
C3_NoCredentialNoRequest ==
    /\ (tool = "search" /\ handlerRan /\ apiKey \in {Unset, ""}) =>
           /\ pc = "done"
           /\ result.kind = "throw"
           /\ requests = <<>>
    /\ \A i \in 1..Len(requests) :
           requests[i].api = "brave" => apiKey \notin {Unset, ""}

C3_Witness ==
    /\ tool = "search"
    /\ handlerRan
    /\ apiKey = ""
    /\ result.kind = "throw"

\* C5: a handler body starts only on arguments that pass the tool's
\* parameter schema; malformed arguments are rejected with a validation
\* error, run no handler logic and issue no outbound request.
C5_ValidatedBeforeHandler ==
    /\ handlerRan => WellFormed(tool, args)
    /\ (tool # "none" /\ ~WellFormed(tool, args)) =>
           /\ pc = "done"
           /\ result.kind = "rejected"
           /\ ~handlerRan
           /\ requests = <<>>

C5_Witness ==
    /\ tool = "weather"
    /\ args.city.t = "undefined"
    /\ result.kind = "rejected"
    /\ requests = <<>>

\* Reading a decimal numeral back.
IsNumeral(text) ==
    LET d == IF text # <<>> /\ Head(text) = "-" THEN Tail(text) ELSE text
    IN  /\ d # <<>>
        /\ \A i \in 1..Len(d) : \E k \in 1..10 : DigitChar[k] = d[i]
        /\ Len(d) > 1 => d[1] # "0"
        /\ d = <<"0">> => text = d

DigitValue(c) == (CHOOSE k \in 1..10 : DigitChar[k] = c) - 1

RECURSIVE ParseDigits(_)
ParseDigits(d) ==
    IF Len(d) = 1 THEN DigitValue(d[1])
    ELSE 10 * ParseDigits(SubSeq(d, 1, Len(d) - 1)) + DigitValue(d[Len(d)])

ParseNumber(text) ==
    IF Head(text) = "-" THEN 0 - ParseDigits(Tail(text)) ELSE ParseDigits(text)

\* C7: for all numbers a, b that pass the schema, add returns one text block
\* whose text is the decimal numeral of a+b, and add ends in no other way
\* than this or a schema rejection.
C7_AddReturnsSum ==
    /\ (tool = "add" /\ handlerRan) =>
           /\ pc = "done"
           /\ OneTextBlock
           /\ IsNumeral(ResultText)
           /\ ParseNumber(ResultText) = args.a.n + args.b.n
    /\ (tool = "add" /\ pc = "done") => result.kind \in {"content", "rejected"}

C7_Witness ==
    /\ tool = "add"
    /\ handlerRan
    /\ args.a.n + args.b.n < -9
    /\ args.b.n > 0

\* Reading a pretty-printed JSON array of result objects back.
IsInk(t) == t \notin {"\n", " "}

RECURSIVE TitlesFrom(_, _)
TitlesFrom(s, i) ==
    IF i > Len(s) THEN <<>>
    ELSE (IF i >= 3 /\ s[i - 1] = "\"" /\ s[i - 2] = ":"
          THEN <<[title |-> s[i]]>> ELSE <<>>)
         \o TitlesFrom(s, i + 1)

ParseResults(text) == TitlesFrom(SelectSeq(text, IsInk), 1)

Openers == {"[", "{"}
Closers == {"]", "}"}

Depth(text, i) ==
    Cardinality({j \in 1..(i - 1) : text[j] \in Openers})
    - Cardinality({j \in 1..(i - 1) : text[j] \in Closers})

RECURSIVE SpacesAfter(_, _)
SpacesAfter(text, i) ==
    IF i + 1 <= Len(text) /\ text[i + 1] = " "
    THEN 1 + SpacesAfter(text, i + 1) ELSE 0

\* Every line starts with unit spaces per nesting level, every opener and
\* comma ends its line, and only an empty array stays on one line.
Indented(text, unit) ==
    /\ Len(text) >= 2 /\ Head(text) = "[" /\ Last(text) = "]"
    /\ \A i \in 1..Len(text) :
        /\ text[i] = "\n" =>
              LET k == SpacesAfter(text, i)
              IN  /\ i + k + 1 <= Len(text)
                  /\ k = unit * (Depth(text, i)
                                 - (IF text[i + k + 1] \in Closers THEN 1 ELSE 0))
        /\ text[i] \in {"{", ","} => text[i + 1] = "\n"
        /\ text[i] = "[" => text[i + 1] \in {"\n", "]"}
        /\ (text[i] \in Closers /\ text[i - 1] # "[") =>
              \E j \in 1..(i - 1) :
                  text[j] = "\n" /\ \A m \in (j + 1)..(i - 1) : text[m] = " "
        /\ text[i] = ":" => text[i + 1] = " " /\ text[i + 2] # " "

DecodeURIComponent(s) ==
    CASE s = "mcp%20sse" -> "mcp sse"
      [] s = "New%20York" -> "New York"
      [] OTHER -> s

\* C6: with the credential present a search invocation issues exactly one
\* web-search request carrying the query and the count (5 when omitted); a
\* non-success status makes it throw and return no content; a success
\* status returns one text block, the 2-space-indented serialization of the
\* result list, or of the empty list when the body has no web results.
C6_SearchOutcome ==
    (tool = "search" /\ handlerRan /\ apiKey \notin {Unset, ""}) =>
        /\ Len(requests) = 1
        /\ requests[1].api = "brave"
        /\ DecodeURIComponent(requests[1].q) = args.query.s
        /\ requests[1].count = (IF args.count.t = "undefined" THEN 5 ELSE args.count.n)
        /\ (pc = "done" /\ responses[1].kind = "response") =>
              IF ~responses[1].ok
              THEN result.kind = "throw" /\ result.content = <<>>
              ELSE /\ OneTextBlock
                   /\ Indented(ResultText, 2)
                   /\ ParseResults(ResultText) =
                          (IF responses[1].hasWeb /\ responses[1].hasResults
                           THEN responses[1].results ELSE <<>>)

C6_Witness ==
    /\ tool = "search"
    /\ pc = "done"
    /\ args.count.t = "undefined"
    /\ args.query.s = "mcp sse"
    /\ result.kind = "content"
    /\ Len(responses[1].results) = 2

\* C8: the weather tool issues the forecast request only after the geocode
\* request came back with a success status and a non-empty result list, for
\* the coordinates of the first result; it issues at most two requests; and
\* what it returns follows the first check that fails: geocode status,
\* geocode results, forecast status, current_weather, else the success text.
C8_WeatherSequence ==
    (tool = "weather" /\ handlerRan) =>
        /\ Len(requests) \in {1, 2}
        /\ requests[1].api = "geocoding"
        /\ Len(requests) = 2 =>
              /\ Len(responses) >= 1
              /\ responses[1].kind = "response"
              /\ responses[1].ok
              /\ responses[1].hasResults
              /\ Len(responses[1].results) >= 1
              /\ requests[2].api = "forecast"
              /\ requests[2].latitude = responses[1].results[1].latitude
              /\ requests[2].longitude = responses[1].results[1].longitude
        /\ (pc = "done" /\ responses[1].kind = "response") =>
              IF ~responses[1].ok
              THEN /\ OneTextBlock /\ Len(requests) = 1
                   /\ ResultText = <<"Failed to fetch location for city: ", args.city.s>>
              ELSE IF ~responses[1].hasResults \/ responses[1].results = <<>>
              THEN /\ OneTextBlock /\ Len(requests) = 1
                   /\ ResultText = <<"City not found: ", args.city.s>>
              ELSE /\ Len(requests) = 2
                   /\ Len(responses) = 2
                   /\ responses[2].kind = "response" =>
                        IF ~responses[2].ok
                        THEN /\ OneTextBlock
                             /\ ResultText =
                                  <<"Failed to fetch weather for city: ", args.city.s>>
                        ELSE IF ~responses[2].hasCurrent
                        THEN /\ OneTextBlock
                             /\ ResultText =
                                  <<"Weather data not available for: ", args.city.s>>
                        ELSE /\ OneTextBlock
                             /\ ResultText[1] = "Weather for "
                             /\ ResultText[2] = responses[1].results[1].name
                             /\ ResultText[4] = responses[1].results[1].country
                             /\ Len(ResultText) > 5

C8_Witness ==
    /\ tool = "weather"
    /\ pc = "done"
    /\ Len(requests) = 2
    /\ Len(responses[1].results) = 2
    /\ responses[1].results[1] # responses[1].results[2]
    /\ Len(responses) = 2
    /\ responses[2].hasCurrent
    /\ result.kind = "content"

====
